---- MODULE Spec2Model ----
(***************************************************************************)
(* A model of scripts/vk_validation_stats.py: the four readers             *)
(* (ValidationDatabase, ValidationJSON, ValidationSource, TestParser) and  *)
(* the reconciliation done inline in main.                                 *)
(*                                                                         *)
(* Text is modelled as sequences of one-character strings, so that the     *)
(* str methods the script relies on (strip, lstrip, split, startswith,     *)
(* endswith, in, slicing) are computed and not assumed.                    *)
(***************************************************************************)
EXTENDS Integers, Sequences, FiniteSets, TLC

(***************************************************************************)
(* Bounds of the model.                                                    *)
(***************************************************************************)
\* the number of source lines scanned, over all files
MaxLines == 4
\* the number of times ValidationSource.parse is run
MaxRuns == 2
\* the nesting depth of the validusage.json document
MaxDepth == 4
\* the number of lines of the database file
MaxDbLines == 2
\* the longest generated-file list a constructor is called with (SpecConstruct)
MaxGenerated == 2
\* the most lines the test files of a scan hold together (SpecTest)
MaxTestLines == 3

(***************************************************************************)
(* Characters and the str methods used by the script.                      *)
(***************************************************************************)
DQ == "\""
NL == "\n"
SP == " "

\* the characters str.strip(), str.lstrip() and str.split() treat as blank
Whitespace == {SP, NL}

\* Python's None; no text is equal to it
None == <<"None">>

RECURSIVE LStrip(_, _)
\* s.lstrip(chars): drop every leading character that is in chars
LStrip(s, chars) ==
    IF s # <<>> /\ Head(s) \in chars THEN LStrip(Tail(s), chars) ELSE s

RECURSIVE RStrip(_, _)
\* s.rstrip(chars)
RStrip(s, chars) ==
    IF s # <<>> /\ s[Len(s)] \in chars
    THEN RStrip(SubSeq(s, 1, Len(s) - 1), chars)
    ELSE s

\* s.strip(chars)
Strip(s, chars) == RStrip(LStrip(s, chars), chars)

\* s.startswith(p)
StartsWith(s, p) == Len(s) >= Len(p) /\ SubSeq(s, 1, Len(p)) = p

\* s.endswith(p)
EndsWith(s, p) == Len(s) >= Len(p) /\ SubSeq(s, Len(s) - Len(p) + 1, Len(s)) = p

\* p in s
Contains(s, p) ==
    \E i \in 1..(Len(s) - Len(p) + 1) : SubSeq(s, i, i + Len(p) - 1) = p

RECURSIVE SplitAcc(_, _, _)
\* the loop of s.split(): cur is the token being read, acc the tokens read
SplitAcc(s, cur, acc) ==
    IF s = <<>>
    THEN IF cur = <<>> THEN acc ELSE Append(acc, cur)
    ELSE IF Head(s) \in Whitespace
         THEN SplitAcc(Tail(s), <<>>, IF cur = <<>> THEN acc ELSE Append(acc, cur))
         ELSE SplitAcc(Tail(s), Append(cur, Head(s)), acc)

\* s.split(): the maximal runs of non-blank characters, in order
Split(s) == SplitAcc(s, <<>>, <<>>)

\* s[:-2]
DropLast2(s) == SubSeq(s, 1, Len(s) - 2)

\* the identifier prefix marker '"VUID-'
VuidMarker == <<DQ, "V", "U", "I", "D", "-">>

\* the identifiers of the model, as the database and the specification write
\* them: VUID-a and VUID-b
VuidA == <<"V", "U", "I", "D", "-", "a">>
VuidB == <<"V", "U", "I", "D", "-", "b">>

\* the block-comment opener alone
CommentOpeners_BlockOnly == {<<"/", "*">>}

\* the comment openers a scanned line is tested against
CommentOpeners == {<<"/", "/">>, <<"/", "*">>}

\* True in [line.strip().startswith(comment) for comment in ['//', '/*']]
IsCommentLine(line) ==
    \E c \in CommentOpeners : StartsWith(Strip(line, Whitespace), c)

\* broken_vuid.startswith('"VUID-') and broken_vuid.endswith('-"')
IsBrokenVuid(tok) == StartsWith(tok, VuidMarker) /\ EndsWith(tok, <<"-", DQ>>)

\* the join without the removal of the continuation's opening quote
JoinPrepend_KeepQuote(prepend, line) ==
    DropLast2(prepend) \o LStrip(line, Whitespace)

\* prepend[:-2] + line.lstrip().lstrip('"')
JoinPrepend(prepend, line) ==
    DropLast2(prepend) \o LStrip(LStrip(line, Whitespace), {DQ})

\* the characters ValidationSource.parse strips from a token
SourceStripChars == {",", ")", ";", "{", "}", DQ}

\* str.strip(',);{}"')
SourceCanon(tok) == Strip(tok, SourceStripChars)

(***************************************************************************)
(* ValidationSource: the occurrence map and one step of the scan.          *)
(***************************************************************************)
\* {} : a dict with no key
EmptyDict == [k \in {} |-> 0]

\* the count of a repeated identifier raised without its place being listed
RecordVuid_CountOnly(vcd, vuid, sf, line_num) ==
    IF vuid \notin DOMAIN vcd
    THEN [k \in DOMAIN vcd \cup {vuid} |->
            IF k = vuid
            THEN [count |-> 1, file_line |-> <<<<sf, line_num>>>>]
            ELSE vcd[k]]
    ELSE [vcd EXCEPT ![vuid] = [count |-> @.count + 1, file_line |-> @.file_line]]

\* lines 264-274: count one more use of vuid, found at file sf, line line_num
RecordVuid(vcd, vuid, sf, line_num) ==
    IF vuid \notin DOMAIN vcd
    THEN [k \in DOMAIN vcd \cup {vuid} |->
            IF k = vuid
            THEN [count |-> 1, file_line |-> <<<<sf, line_num>>>>]
            ELSE vcd[k]]
    ELSE [vcd EXCEPT ![vuid] =
            [count |-> @.count + 1,
             file_line |-> Append(@.file_line, <<sf, line_num>>)]]

RECURSIVE RecordTokens(_, _, _, _)
\* lines 258-274: every token holding the marker is trimmed and recorded
RecordTokens(vcd, toks, sf, line_num) ==
    IF toks = <<>> THEN vcd
    ELSE RecordTokens(
            IF Contains(Head(toks), VuidMarker)
            THEN RecordVuid(vcd, SourceCanon(Head(toks)), sf, line_num)
            ELSE vcd,
            Tail(toks), sf, line_num)

\* the line loop recording the complete identifiers of a broken line at once,
\* and again with the continuation
ScanLine_RecordAtBreak(st, sf, line_num, line) ==
    IF IsCommentLine(line) THEN st
    ELSE LET joined == IF st.prepend # None
                       THEN JoinPrepend(st.prepend, line)
                       ELSE line
         IN  IF Contains(joined, VuidMarker)
             THEN LET line_list == Split(joined)
                  IN  IF IsBrokenVuid(line_list[Len(line_list)])
                      THEN [prepend |-> joined,
                            vcd |-> RecordTokens(st.vcd,
                                       SubSeq(line_list, 1, Len(line_list) - 1),
                                       sf, line_num)]
                      ELSE [prepend |-> None,
                            vcd |-> RecordTokens(st.vcd, line_list, sf, line_num)]
             ELSE [prepend |-> None, vcd |-> st.vcd]

\* lines 241-274: the body of the line loop of ValidationSource.parse, on the
\* scan state st = [prepend, vcd], for line number line_num of file sf
ScanLine(st, sf, line_num, line) ==
    IF IsCommentLine(line) THEN st
    ELSE LET joined == IF st.prepend # None
                       THEN JoinPrepend(st.prepend, line)
                       ELSE line
         IN  IF Contains(joined, VuidMarker)
             THEN LET line_list == Split(joined)
                  IN  IF IsBrokenVuid(line_list[Len(line_list)])
                      THEN [prepend |-> joined, vcd |-> st.vcd]
                      ELSE [prepend |-> None,
                            vcd |-> RecordTokens(st.vcd, line_list, sf, line_num)]
             ELSE [prepend |-> None, vcd |-> st.vcd]

RECURSIVE ScanFile(_, _, _, _)
\* lines 237-274: the lines of one file from line number line_num + 1 on
ScanFile(st, sf, lines, line_num) ==
    IF lines = <<>> THEN st
    ELSE ScanFile(ScanLine(st, sf, line_num + 1, Head(lines)), sf,
                  Tail(lines), line_num + 1)

RECURSIVE ScanFiles(_, _, _)
\* lines 236-274: the file loop; the scan state is carried from file to file
ScanFiles(st, names, contents) ==
    IF names = <<>> THEN st
    ELSE ScanFiles(ScanFile(st, Head(names), contents[Head(names)], 0),
                   Tail(names), contents)

\* lines 234-274: ValidationSource.parse as a whole, from the occurrence map
\* the scanner holds when it is called
ParseSource(vcd, names, contents) ==
    ScanFiles([prepend |-> None, vcd |-> vcd], names, contents).vcd

(***************************************************************************)
(* The configured lists (lines 55-76), cut down to the shape the model can *)
(* enumerate: two hand-written layer sources, one generated source, two    *)
(* candidate build directories.  A path is the pair <<directory, name>>.   *)
(***************************************************************************)
\* layer_source_files as configured
ConfiguredLayerSourceFiles ==
    << <<"layers", "core_validation.cpp">>, <<"layers", "descriptor_sets.cpp">> >>

\* generated_layer_source_files
generated_layer_source_files == << "parameter_validation.cpp" >>

\* generated_layer_source_directories
generated_layer_source_directories == << "build", "dbuild" >>

(***************************************************************************)
(* State.                                                                  *)
(***************************************************************************)
VARIABLES
    db_lines,           \* input: the lines of the database file
    json_doc,           \* input: the parsed validusage.json, or Absent
    disk,               \* input: the generated-source paths that exist
    files,              \* input: path -> the lines of that source file
    test_lines,         \* input: the lines of the test file
    verbose_mode,       \* input: 'verbose' in sys.argv
    pc,                 \* where the run is
    outcome,            \* "running", "returned", "raised" or "exited"
    val_db,             \* the ValidationDatabase object
    val_json,           \* the ValidationJSON object
    layer_source_files, \* the module-level list of that name
    val_source,         \* the ValidationSource object
    scan,               \* the locals of the parse loop in progress
    test_parser,        \* the TestParser object
    rec,                \* the locals of main's reconciliation
    printed,            \* the report lines printed so far, by kind
    history             \* what the parses, or the runs, so far returned

inputs == <<db_lines, json_doc, disk, files, test_lines, verbose_mode>>
objects == <<val_db, val_json, layer_source_files, val_source, test_parser>>
vars == <<inputs, objects, pc, outcome, scan, rec, printed, history>>

\* a validusage.json that is not on disk
Absent == [t |-> "absent", v |-> <<>>, kids |-> <<>>]

\* the objects before their constructors ran, and the locals before they are set
NoDb == [db_dict |-> EmptyDict, db_vuid_to_tests |-> EmptyDict,
         db_implemented_vuids |-> {}, db_unimplemented_implicit |-> {},
         db_invalid_implemented |-> {}]
NoJson == [vuids |-> {}]
NoSource == [source_files |-> <<>>, vuid_count_dict |-> EmptyDict]
NoTests == [test_to_errors |-> EmptyDict]
NoScan == [idx |-> 1, line_num |-> 0, prepend |-> None]
NoRec == [result |-> 0, db_missing |-> {}, json_missing |-> {},
          multiple_uses |-> FALSE, imp_not_found |-> {}, imp_not_claimed |-> {},
          bad_testnames |-> {}, tests_missing_vuid |-> EmptyDict]
\* nothing printed yet: kinds are the headings printed, uses the identifiers
\* listed under the multiple-uses heading
NoPrint == [kinds |-> {}, uses |-> {}]

(***************************************************************************)
(* SpecScan: ValidationSource.parse, line by line, over every way to put   *)
(* at most MaxLines lines of SourceLinePool into the two layer sources.    *)
(***************************************************************************)
\* "VUID-a (no closing quote)
TokA == VuidMarker \o <<"a">>
TokB == VuidMarker \o <<"b">>

\* the texts a source line is drawn from, without the line break
SourceLinePool ==
    { <<"x", SP>> \o TokA \o <<DQ, ",">>,                  \* x "VUID-a",
      <<"x", SP>> \o TokA \o <<"-", DQ>>,                  \* x "VUID-a-"
      <<SP, DQ, "b", DQ, ")", ";">>,                       \*  "b");
      <<"/", "/", SP>> \o TokA \o <<"-", DQ>>,             \* // "VUID-a-"
      TokB \o <<DQ, ",", SP>> \o TokA \o <<"-", DQ>> }     \* "VUID-b", "VUID-a-"

\* every sequence over S of length at most n
SeqsUpTo(S, n) == UNION { [1..k -> S] : k \in 0..n }

\* the lines a file iterator yields: every line ends with a line break, the
\* last one only when the file ends with one
FileLines(body, final_nl) ==
    [i \in 1..Len(body) |->
        IF i < Len(body) \/ final_nl THEN Append(body[i], NL) ELSE body[i]]

\* the two layer sources holding the lines of body, cut after line cut
TwoFiles(body, cut, final_nl) ==
    [p \in {ConfiguredLayerSourceFiles[i] : i \in 1..2} |->
        IF p = ConfiguredLayerSourceFiles[1]
        THEN FileLines(SubSeq(body, 1, cut), final_nl)
        ELSE FileLines(SubSeq(body, cut + 1, Len(body)), final_nl)]

\* everything outside the source scanner, at rest
ScanFrame ==
    /\ db_lines = <<>> /\ json_doc = Absent /\ test_lines = <<>>
    /\ verbose_mode = FALSE
    /\ val_db = NoDb /\ val_json = NoJson /\ test_parser = NoTests
    /\ rec = NoRec /\ printed = NoPrint /\ outcome = "running"

InitScan ==
    /\ ScanFrame
    /\ disk = {}
    /\ \E body \in SeqsUpTo(SourceLinePool, MaxLines), final_nl \in BOOLEAN :
         \E cut \in 0..Len(body) : files = TwoFiles(body, cut, final_nl)
    /\ layer_source_files = ConfiguredLayerSourceFiles
    /\ val_source = [source_files |-> ConfiguredLayerSourceFiles,
                     vuid_count_dict |-> EmptyDict]
    /\ scan = NoScan
    /\ history = <<>>
    /\ pc = "src_file"

\* the file the parse loop is in
CurrentFile == val_source.source_files[scan.idx]

\* line 236-238: the file loop takes the next file and resets its line count
SrcOpenFile ==
    /\ pc = "src_file"
    /\ scan.idx <= Len(val_source.source_files)
    /\ scan' = [scan EXCEPT !.line_num = 0]
    /\ pc' = "src_line"
    /\ UNCHANGED <<inputs, objects, outcome, rec, printed, history>>

\* lines 239-274: the line loop takes the next line of the file
SrcLine ==
    /\ pc = "src_line"
    /\ scan.line_num < Len(files[CurrentFile])
    /\ LET n  == scan.line_num + 1
           st == ScanLine([prepend |-> scan.prepend,
                           vcd |-> val_source.vuid_count_dict],
                          CurrentFile, n, files[CurrentFile][n])
       IN  /\ scan' = [scan EXCEPT !.line_num = n, !.prepend = st.prepend]
           /\ val_source' = [val_source EXCEPT !.vuid_count_dict = st.vcd]
    /\ UNCHANGED <<inputs, val_db, val_json, layer_source_files, test_parser,
                   pc, outcome, rec, printed, history>>

\* the line loop is exhausted: the file is closed, on to the next
SrcCloseFile ==
    /\ pc = "src_line"
    /\ scan.line_num = Len(files[CurrentFile])
    /\ scan' = [scan EXCEPT !.idx = @ + 1]
    /\ pc' = "src_file"
    /\ UNCHANGED <<inputs, objects, outcome, rec, printed, history>>

\* the file loop is exhausted: parse returns
SrcDone ==
    /\ pc = "src_file"
    /\ scan.idx > Len(val_source.source_files)
    /\ pc' = "src_done"
    /\ UNCHANGED <<inputs, objects, outcome, scan, rec, printed, history>>

NextScan == SrcOpenFile \/ SrcLine \/ SrcCloseFile \/ SrcDone

SpecScan == InitScan /\ [][NextScan]_vars

\* the occurrence counts of an occurrence map
Counts(vcd) == [k \in DOMAIN vcd |-> vcd[k].count]

\* line k of ls ends with a broken identifier token and its line break, and
\* line k + 1 is blanks, a quote and the rest of the identifier
BreakAt(ls, k) ==
    /\ k + 1 <= Len(ls)
    /\ EndsWith(ls[k], <<"-", DQ, NL>>)
    /\ LET toks == Split(ls[k]) IN IsBrokenVuid(toks[Len(toks)])
    /\ Head(ls[k + 1]) \in Whitespace
    /\ LET rest == LStrip(ls[k + 1], Whitespace)
       IN  /\ Len(rest) >= 2
           /\ rest[1] = DQ
           /\ rest[2] \notin Whitespace \cup {DQ}

\* ls with lines k and k + 1 written as one line: the closing quote, the line
\* break, the leading blanks and the opening quote are removed
Unbroken(ls, k) ==
    SubSeq(ls, 1, k - 1)
    \o << SubSeq(ls[k], 1, Len(ls[k]) - 2) \o Tail(LStrip(ls[k + 1], Whitespace)) >>
    \o SubSeq(ls, k + 2, Len(ls))

\* what a fresh scanner records for the file list with file p rewritten
CountsUnbroken(p, k) ==
    Counts(ParseSource(EmptyDict, val_source.source_files,
                       [files EXCEPT ![p] = Unbroken(files[p], k)]))

\* C2 as stated: a file with an identifier broken over lines k and k + 1
\* yields the same identifiers as the file with the two lines written as one.
C2_ReflowAnyLine ==
    pc = "src_done" =>
        \A p \in DOMAIN files : \A k \in 1..Len(files[p]) :
            BreakAt(files[p], k) =>
                Counts(val_source.vuid_count_dict) = CountsUnbroken(p, k)

\* C2, amended: the same, for a line k that is not a comment line.
C2_Reflow ==
    pc = "src_done" =>
        \A p \in DOMAIN files : \A k \in 1..Len(files[p]) :
            (BreakAt(files[p], k) /\ ~IsCommentLine(files[p][k])) =>
                Counts(val_source.vuid_count_dict) = CountsUnbroken(p, k)

\* an identifier broken after "VUID-a- on a line that is scanned, continued by
\* b on the next line, has been scanned and recorded as VUID-a-b
C2_Witness ==
    /\ pc = "src_done"
    /\ \E p \in DOMAIN files : \E k \in 1..Len(files[p]) :
            BreakAt(files[p], k) /\ ~IsCommentLine(files[p][k])
    /\ <<"V", "U", "I", "D", "-", "a", "-", "b">> \in DOMAIN val_source.vuid_count_dict

\* C3 as stated: the pending fragment is empty when a file is opened.
C3_PendingEmptyAtFileStart ==
    (pc = "src_line" /\ scan.line_num = 0) => scan.prepend = None

\* the text, trimmed of blanks, opens with // or with /*
CommentText(line) ==
    LET l == Strip(line, Whitespace)
    IN  Len(l) >= 2 /\ l[1] = "/" /\ l[2] \in {"/", "*"}

\* C19: the step of the line loop on a comment line advances the line number
\* by one and changes nothing else: the occurrence map, the pending fragment
\* and the scanned list stay as they are.
C19_CommentLineSkipped ==
    [][ (/\ pc = "src_line"
         /\ scan.line_num < Len(files[CurrentFile])
         /\ CommentText(files[CurrentFile][scan.line_num + 1]))
        => /\ val_source' = val_source
           /\ scan'.prepend = scan.prepend
           /\ scan'.line_num = scan.line_num + 1
           /\ scan'.idx = scan.idx ]_vars

\* a file whose first line ends with the broken "VUID-a-", whose second line
\* is a comment and whose third line continues with b has been scanned, and
\* VUID-a-b is recorded once, at line 3
C19_Witness ==
    /\ pc = "src_done"
    /\ \E p \in DOMAIN files :
          /\ Len(files[p]) >= 3
          /\ BreakAt(<<files[p][1], files[p][3]>>, 1)
          /\ CommentText(files[p][2])
          /\ <<"V", "U", "I", "D", "-", "a", "-", "b">>
                \in DOMAIN val_source.vuid_count_dict
          /\ val_source.vuid_count_dict[<<"V", "U", "I", "D", "-", "a", "-", "b">>].file_line
                = << <<p, 3>> >>

\* the files whose line loop has been entered so far, and how far each was read
LinesScanned(p) ==
    IF \E i \in 1..Len(val_source.source_files) :
            val_source.source_files[i] = p /\ i < scan.idx
    THEN Len(files[p])
    ELSE IF /\ pc = "src_line"
            /\ scan.idx <= Len(val_source.source_files)
            /\ CurrentFile = p
         THEN scan.line_num
         ELSE 0

\* C21: at every point of the scan, each identifier of vuid_count_dict has a
\* count of at least 1 that equals the number of entries of its file_line
\* list, and every entry names a file of the scanned list and a line number
\* from 1 to the number of lines of that file read so far.
C21_CountsMatchPlaces ==
    \A k \in DOMAIN val_source.vuid_count_dict :
        LET e == val_source.vuid_count_dict[k]
        IN  /\ e.count >= 1
            /\ e.count = Len(e.file_line)
            /\ \A i \in 1..Len(e.file_line) :
                  /\ e.file_line[i][1] \in DOMAIN files
                  /\ e.file_line[i][2] >= 1
                  /\ e.file_line[i][2] <= LinesScanned(e.file_line[i][1])
                  /\ e.file_line[i][2] <= Len(files[e.file_line[i][1]])

\* the scan is over and VUID-a is recorded with a count of 2 or more, with
\* places in both scanned files
C21_Witness ==
    /\ pc = "src_done"
    /\ VuidA \in DOMAIN val_source.vuid_count_dict
    /\ val_source.vuid_count_dict[VuidA].count >= 2
    /\ \A p \in DOMAIN files :
          \E i \in 1..Len(val_source.vuid_count_dict[VuidA].file_line) :
              val_source.vuid_count_dict[VuidA].file_line[i][1] = p

\* the text the line loop works on at its next line: the line itself, or the
\* pending fragment without its last two characters followed by the line
\* without its leading blanks and quotes
TextScanned ==
    LET line == files[CurrentFile][scan.line_num + 1]
    IN  IF scan.prepend # None
        THEN SubSeq(scan.prepend, 1, Len(scan.prepend) - 2)
             \o LStrip(LStrip(line, Whitespace), {DQ})
        ELSE line

\* the last blank-separated token of text is a broken identifier
EndsBroken(text) ==
    LET toks == Split(text)
    IN  /\ toks # <<>>
        /\ LET last == toks[Len(toks)]
           IN  /\ Len(last) >= 6
               /\ SubSeq(last, 1, 6) = VuidMarker
               /\ SubSeq(last, Len(last) - 1, Len(last)) = <<"-", DQ>>

\* the places listed for identifier v in an occurrence map
Places(vcd, v) == IF v \in DOMAIN vcd THEN vcd[v].file_line ELSE <<>>

\* how many tokens of toks carry the marker and trim to identifier v
TokensFor(toks, v) ==
    Cardinality({ i \in 1..Len(toks) :
                    Contains(toks[i], VuidMarker) /\ SourceCanon(toks[i]) = v })

GeneratedPath(build_dir, source) == <<build_dir, source>>

\* the path in the last candidate directory that holds the file
FirstDirWith_Last(source, dirs, onDisk) ==
    LET holding == { i \in 1..Len(dirs) : GeneratedPath(dirs[i], source) \in onDisk }
    IN  IF holding = {} THEN <<>>
        ELSE << GeneratedPath(dirs[CHOOSE i \in holding : \A j \in holding : j <= i],
                              source) >>

RECURSIVE FirstDirWith(_, _, _)
\* lines 219-223: the candidate directories in order, up to the first that
\* holds the file; the paths found (one or none)
FirstDirWith(source, dirs, onDisk) ==
    IF dirs = <<>> THEN <<>>
    ELSE IF GeneratedPath(Head(dirs), source) \in onDisk
         THEN << GeneratedPath(Head(dirs), source) >>
         ELSE FirstDirWith(source, Tail(dirs), onDisk)

RECURSIVE QualifiedPaths(_, _, _)
\* lines 217-223: qualified_paths
QualifiedPaths(sources, dirs, onDisk) ==
    IF sources = <<>> THEN <<>>
    ELSE FirstDirWith(Head(sources), dirs, onDisk)
         \o QualifiedPaths(Tail(sources), dirs, onDisk)

\* every path a scan may open
AllPaths ==
    {ConfiguredLayerSourceFiles[i] : i \in 1..Len(ConfiguredLayerSourceFiles)}
    \cup {GeneratedPath(generated_layer_source_directories[d],
                        generated_layer_source_files[g]) :
            d \in 1..Len(generated_layer_source_directories),
            g \in 1..Len(generated_layer_source_files)}

GeneratedPaths == AllPaths \ {ConfiguredLayerSourceFiles[i] : i \in 1..2}

\* a file of no line or of one line of SourceLinePool
OneLineFiles == { FileLines(body, TRUE) : body \in SeqsUpTo(SourceLinePool, 1) }

\* lines 211-232: ValidationSource(source_file_list,
\* generated_source_file_list, generated_source_directories): the list the
\* scanner holds, or exit when a generated file is in no directory.
\* source_files is the list object passed in, so extending it extends the
\* caller's list too.
NewSource(source_file_list, generated_source_file_list, generated_source_directories, onDisk) ==
    LET qualified_paths == QualifiedPaths(generated_source_file_list,
                                          generated_source_directories, onDisk)
    IN  IF Len(generated_source_file_list) > 0
           /\ Len(generated_source_file_list) # Len(qualified_paths)
        THEN [exited |-> TRUE, source_files |-> source_file_list]
        ELSE [exited |-> FALSE, source_files |-> source_file_list \o qualified_paths]

\* ValidationSource(layer_source_files, generated_layer_source_files,
\* generated_layer_source_directories), as one step
Construct ==
    /\ outcome = "running"
    /\ pc \in {"src_new", "src_done"}
    /\ Len(history) < MaxRuns
    /\ LET r == NewSource(layer_source_files, generated_layer_source_files,
                          generated_layer_source_directories, disk)
       IN  IF r.exited
           THEN /\ outcome' = "exited"
                /\ pc' = "src_missing"
                /\ UNCHANGED <<layer_source_files, val_source>>
           ELSE /\ layer_source_files' = r.source_files
                /\ val_source' = [source_files |-> r.source_files,
                                  vuid_count_dict |-> EmptyDict]
                /\ pc' = "src_built"
                /\ UNCHANGED outcome
    /\ UNCHANGED <<inputs, val_db, val_json, test_parser, scan, rec, printed,
                   history>>

\* lines 233-278: val_source.parse(verbose_mode), as one step
Parse ==
    /\ outcome = "running"
    /\ pc \in {"src_built", "src_done"}
    /\ Len(history) < MaxRuns
    /\ val_source' = [val_source EXCEPT !.vuid_count_dict =
                        ParseSource(@, val_source.source_files, files)]
    /\ history' = Append(history, val_source'.vuid_count_dict)
    /\ pc' = "src_done"
    /\ UNCHANGED <<inputs, val_db, val_json, layer_source_files, test_parser,
                   outcome, scan, rec, printed>>

InitRescan ==
    /\ ScanFrame
    /\ disk \in SUBSET GeneratedPaths
    /\ files \in [AllPaths -> OneLineFiles]
    /\ layer_source_files = ConfiguredLayerSourceFiles
    /\ val_source = NoSource
    /\ scan = NoScan
    /\ history = <<>>
    /\ pc = "src_new"

NextRescan == Construct \/ Parse

SpecRescan == InitRescan /\ [][NextRescan]_vars

\* C10 as stated: every parse over the same configured lists returns the
\* same occurrence map (counts and locations) as the first.
C10_RescanSame ==
    \A i \in 1..Len(history) : history[i] = history[1]

(***************************************************************************)
(* SpecConstruct: one call of the constructor of ValidationSource, on the  *)
(* configured layer sources, with every list of at most MaxGenerated       *)
(* generated file names, every list of candidate directories, and every    *)
(* set of generated files on disk.                                         *)
(***************************************************************************)
\* the generated file names of lines 61-64
GeneratedNames == {"parameter_validation.cpp", "object_tracker.cpp"}

\* the lists of candidate directories: none, one, or both in either order
CandidateDirLists ==
    { <<>>, <<"build">>, <<"dbuild">>, <<"build", "dbuild">>, <<"dbuild", "build">> }

\* every path a generated file may have
ConstructPaths ==
    { GeneratedPath(build_dir, source) :
        build_dir \in {"build", "dbuild"}, source \in GeneratedNames }

InitConstruct ==
    /\ ScanFrame
    /\ disk \in SUBSET ConstructPaths
    /\ files = [p \in AllPaths |-> <<>>]
    /\ layer_source_files = ConfiguredLayerSourceFiles
    /\ val_source = NoSource
    /\ scan = NoScan
    /\ history = <<>>
    /\ pc = "src_new"

\* lines 211-232: ValidationSource(layer_source_files, gen, dirs).  The
\* arguments are stored on the object (lines 212-214) before the generated
\* files are looked for; vuid_count_dict is set last (line 232), so it is
\* not there when the constructor exits.
ConstructWith ==
    /\ outcome = "running"
    /\ pc = "src_new"
    /\ \E gen \in SeqsUpTo(GeneratedNames, MaxGenerated), dirs \in CandidateDirLists :
         LET r == NewSource(layer_source_files, gen, dirs, disk)
         IN  IF r.exited
             THEN /\ outcome' = "exited"
                  /\ pc' = "src_missing"
                  /\ val_source' = [source_files |-> r.source_files,
                                    generated_source_files |-> gen,
                                    generated_source_dirs |-> dirs]
                  /\ UNCHANGED layer_source_files
             ELSE /\ layer_source_files' = r.source_files
                  /\ val_source' = [source_files |-> r.source_files,
                                    generated_source_files |-> gen,
                                    generated_source_dirs |-> dirs,
                                    vuid_count_dict |-> EmptyDict]
                  /\ pc' = "src_built"
                  /\ UNCHANGED outcome
    /\ UNCHANGED <<inputs, val_db, val_json, test_parser, scan, rec, printed,
                   history>>

NextConstruct == ConstructWith

SpecConstruct == InitConstruct /\ [][NextConstruct]_vars

\* C13: the constructor exits exactly when some name of the generated list
\* is on disk in none of the candidate directories; otherwise the scanned
\* list is the layer sources followed by one path per name of the generated
\* list, in the order of that list, each in the first candidate directory
\* that holds the name.
C13_GeneratedSources ==
    pc \in {"src_built", "src_missing"} =>
        LET gen == val_source.generated_source_files
            dirs == val_source.generated_source_dirs
            Holds(i, name) == <<dirs[i], name>> \in disk
            Found(name) == \E i \in 1..Len(dirs) : Holds(i, name)
            First(name) ==
                <<dirs[CHOOSE i \in 1..Len(dirs) :
                            Holds(i, name) /\ \A j \in 1..(i - 1) : ~Holds(j, name)],
                  name>>
        IN  /\ outcome = "exited" <=> \E k \in 1..Len(gen) : ~Found(gen[k])
            /\ outcome # "exited" =>
                  /\ outcome = "running"
                  /\ val_source.source_files =
                        ConfiguredLayerSourceFiles
                        \o [k \in 1..Len(gen) |-> First(gen[k])]

\* both generated files were asked for with the directories build, dbuild:
\* the one that is in both was taken from build, the other from dbuild
C13_Witness ==
    /\ pc = "src_built"
    /\ val_source.generated_source_dirs = <<"build", "dbuild">>
    /\ Len(val_source.generated_source_files) = 2
    /\ LET first == val_source.generated_source_files[1]
           second == val_source.generated_source_files[2]
       IN  /\ first # second
           /\ {<<"build", first>>, <<"dbuild", first>>, <<"dbuild", second>>} = disk
           /\ val_source.source_files =
                 ConfiguredLayerSourceFiles
                 \o << <<"build", first>>, <<"dbuild", second>> >>

(***************************************************************************)
(* ValidationJSON.  A JSON value is a record: t is "str", "obj" or "arr",  *)
(* v the text of a string, kids the members of an object (key k, value n)  *)
(* or the elements of an array (value n), in document order.               *)
(***************************************************************************)
Str(v) == [t |-> "str", v |-> v, kids |-> <<>>]
Obj(kids) == [t |-> "obj", v |-> <<>>, kids |-> kids]
Arr(kids) == [t |-> "arr", v |-> <<>>, kids |-> kids]
Member(k, n) == [k |-> k, n |-> n]
Element(n) == [k |-> "", n |-> n]

RECURSIVE ExtractVUIDs(_)
RECURSIVE ExtractMembers(_)
RECURSIVE ExtractElements(_)
\* lines 186-197: the values the generator yields for d, in order
ExtractVUIDs(d) ==
    IF d.t = "obj" THEN ExtractMembers(d.kids) ELSE <<>>

\* lines 188-197: the loop over d.items()
ExtractMembers(kids) ==
    IF kids = <<>> THEN <<>>
    ELSE LET k == Head(kids).k
             v == Head(kids).n
         IN  (IF k = "vuid" THEN <<v>>
              ELSE IF v.t = "obj" THEN ExtractVUIDs(v)
              ELSE IF v.t = "arr" THEN ExtractElements(v.kids)
              ELSE <<>>)
             \o ExtractMembers(Tail(kids))

\* lines 195-197: the loop over the elements of a list value
ExtractElements(kids) ==
    IF kids = <<>> THEN <<>>
    ELSE ExtractVUIDs(Head(kids).n) \o ExtractElements(Tail(kids))

\* the elements of a sequence
Range(seq) == { seq[i] : i \in 1..Len(seq) }

\* lines 198-208: ValidationJSON.read on the object js.  A document that is
\* not on disk leaves json_dict unset, and a yielded value that is an object
\* or an array cannot be added to a set: both raise.  An empty document exits.
ReadJson(js, doc) ==
    IF doc = Absent THEN [js |-> js, outcome |-> "raised"]
    ELSE IF Len(doc.kids) = 0 THEN [js |-> js, outcome |-> "exited"]
    ELSE LET yielded == ExtractVUIDs(doc)
         IN  IF \E i \in 1..Len(yielded) : yielded[i].t # "str"
             THEN [js |-> js, outcome |-> "raised"]
             ELSE [js |-> [vuids |-> js.vuids \cup { n.v : n \in Range(yielded) }],
                   outcome |-> "running"]

\* val_json.read(verbose_mode), as one step
JsonRead ==
    /\ outcome = "running"
    /\ pc = "json"
    /\ LET r == ReadJson(val_json, json_doc)
       IN  val_json' = r.js /\ outcome' = r.outcome
    /\ pc' = "json_done"
    /\ UNCHANGED <<inputs, val_db, layer_source_files, val_source, test_parser,
                   scan, rec, printed, history>>

(***************************************************************************)
(* SpecJson: ValidationJSON.read on every document of nesting depth at     *)
(* most MaxDepth built from two keys and two identifier values.            *)
(***************************************************************************)
JsonLeaves == { Str(VuidA), Str(VuidB) }

\* the values one level deeper than those of S
Wrap(S) ==
    { Obj(<<Member(k, n)>>) : k \in {"vuid", "a"}, n \in S }
    \cup { Arr(<<Element(n)>>) : n \in S }
    \cup { Obj(<<Member("vuid", s), Member("a", n)>>) : s \in JsonLeaves, n \in S }
    \cup { Arr(<<Element(n), Element(Obj(<<Member("vuid", Str(VuidA))>>))>>) : n \in S }

RECURSIVE JsonValues(_)
\* the values of nesting depth at most d
JsonValues(d) ==
    IF d = 0 THEN JsonLeaves \cup { Obj(<<>>), Arr(<<>>) }
    ELSE JsonValues(d - 1) \cup Wrap(JsonValues(d - 1))

\* json.load returns an object or an array here: the documents of nesting
\* depth at most d
JsonDocuments(d) == { n \in JsonValues(d) : n.t # "str" }

InitJson ==
    /\ db_lines = <<>> /\ disk = {} /\ test_lines = <<>> /\ verbose_mode = FALSE
    /\ files = [p \in AllPaths |-> <<>>]
    /\ json_doc \in JsonDocuments(MaxDepth) \cup {Absent}
    /\ val_db = NoDb /\ val_json = NoJson /\ test_parser = NoTests
    /\ layer_source_files = ConfiguredLayerSourceFiles
    /\ val_source = NoSource /\ scan = NoScan /\ history = <<>>
    /\ rec = NoRec /\ printed = NoPrint /\ outcome = "running"
    /\ pc = "json"

NextJson == JsonRead

SpecJson == InitJson /\ [][NextJson]_vars

RECURSIVE VuidValues(_)
\* the strings found under a key "vuid" anywhere in n, however nested
VuidValues(n) ==
    UNION { (IF n.t = "obj" /\ n.kids[i].k = "vuid" /\ n.kids[i].n.t = "str"
             THEN { n.kids[i].n.v } ELSE {})
            \cup VuidValues(n.kids[i].n) : i \in 1..Len(n.kids) }

\* C5 as stated: read leaves vuids equal to the set of values found under
\* the "vuid" keys of the document, at any nesting depth.
C5_AllVuidsFound ==
    (pc = "json_done" /\ outcome = "running") =>
        val_json.vuids = VuidValues(json_doc)

(***************************************************************************)
(* ValidationDatabase.                                                     *)
(***************************************************************************)
\* self.delimiter
delimiter == <<"~", "^", "~">>

RECURSIVE SplitOn(_, _)
\* s.split(sep) for a non-empty sep: the pieces between the occurrences of
\* sep taken from the left, empty pieces included
SplitOn(s, sep) ==
    IF ~Contains(s, sep) THEN <<s>>
    ELSE LET i == CHOOSE j \in 1..(Len(s) - Len(sep) + 1) :
                    /\ SubSeq(s, j, j + Len(sep) - 1) = sep
                    /\ \A h \in 1..(j - 1) : SubSeq(s, h, h + Len(sep) - 1) # sep
         IN  <<SubSeq(s, 1, i - 1)>> \o SplitOn(SubSeq(s, i + Len(sep), Len(s)), sep)

\* the upper-case letters and their lower-case forms
UpperCase == <<"A","B","C","D","E","F","G","H","I","J","K","L","M",
               "N","O","P","Q","R","S","T","U","V","W","X","Y","Z">>
LowerCase == <<"a","b","c","d","e","f","g","h","i","j","k","l","m",
               "n","o","p","q","r","s","t","u","v","w","x","y","z">>

\* the text as written, without the change of case
Lower_AsWritten(s) == s

\* s.lower()
Lower(s) ==
    [i \in 1..Len(s) |->
        IF \E j \in 1..26 : UpperCase[j] = s[i]
        THEN LowerCase[CHOOSE j \in 1..26 : UpperCase[j] = s[i]]
        ELSE s[i]]

\* ['unknown', 'none', 'nottestable']
NoTestNames ==
    { <<"u","n","k","n","o","w","n">>, <<"n","o","n","e">>,
      <<"n","o","t","t","e","s","t","a","b","l","e">> }

\* 'implicit'
ImplicitWord == <<"i","m","p","l","i","c","i","t">>

\* a store that keeps the value a key already has
DictPut_KeepFirst(d, k, v) ==
    [x \in DOMAIN d \cup {k} |-> IF x \in DOMAIN d THEN d[x] ELSE v]

\* dict d with key k set to v
DictPut(d, k, v) == [x \in DOMAIN d \cup {k} |-> IF x = k THEN v ELSE d[x]]

\* lines 110-112: the line is a comment or blank and is passed over
DbLineIgnored(line) ==
    LET l == Strip(line, Whitespace)
    IN  StartsWith(l, <<"#">>) \/ l = <<>>

\* lines 113-114: the fields of the line
DbFields(line) == SplitOn(Strip(line, Whitespace), delimiter)

\* lines 110-142: the body of the line loop of ValidationDatabase.read on the
\* object db.  reported: the bad-line error was printed; raised: indexing a
\* field the line does not have raised IndexError.
DbLine(db, line) ==
    IF DbLineIgnored(line)
    THEN [db |-> db, reported |-> FALSE, raised |-> FALSE]
    ELSE LET db_line == DbFields(line)
             bad == Len(db_line) # 8
         IN  IF Len(db_line) < 8
             THEN [db |-> db, reported |-> bad, raised |-> TRUE]
             ELSE
             LET implemented == db_line[2]
                 testname == db_line[3]
                 vuid_string == db_line[5]
                 note == db_line[8]
             IN [db |->
                   [db_dict |-> DictPut(db.db_dict, vuid_string,
                        [error_enum |-> db_line[1],
                         check_implemented |-> implemented,
                         testname |-> testname,
                         api |-> db_line[4],
                         core_ext |-> db_line[6],
                         error_string |-> db_line[7],
                         note |-> note]),
                    db_implemented_vuids |->
                        IF implemented = <<"Y">>
                        THEN db.db_implemented_vuids \cup {vuid_string}
                        ELSE db.db_implemented_vuids,
                    db_unimplemented_implicit |->
                        IF implemented # <<"Y">> /\ Contains(note, ImplicitWord)
                        THEN db.db_unimplemented_implicit \cup {vuid_string}
                        ELSE db.db_unimplemented_implicit,
                    db_invalid_implemented |->
                        IF implemented \notin {<<"Y">>, <<"N">>}
                        THEN db.db_invalid_implemented \cup {vuid_string}
                        ELSE db.db_invalid_implemented,
                    db_vuid_to_tests |->
                        IF Lower(testname) \notin NoTestNames
                        THEN DictPut(db.db_vuid_to_tests, vuid_string,
                                     SplitOn(testname, <<",">>))
                        ELSE db.db_vuid_to_tests],
                 reported |-> bad, raised |-> FALSE]

RECURSIVE DbLines(_, _)
\* lines 109-142: the line loop, up to the end of the file or to the line
\* that raises
DbLines(st, lines) ==
    IF lines = <<>> \/ st.raised THEN st
    ELSE LET r == DbLine(st.db, Head(lines))
         IN  DbLines([db |-> r.db, reported |-> st.reported \/ r.reported,
                      raised |-> r.raised], Tail(lines))

\* lines 106-153: ValidationDatabase.read as a whole, on a fresh object
ReadDatabase(lines) ==
    DbLines([db |-> NoDb, reported |-> FALSE, raised |-> FALSE], lines)

(***************************************************************************)
(* SpecDb: ValidationDatabase.read, line by line, on every database file   *)
(* of at most MaxDbLines lines of DbLinePool.                              *)
(***************************************************************************)
RECURSIVE Join(_, _)
\* sep.join(parts)
Join(parts, sep) ==
    IF parts = <<>> THEN <<>>
    ELSE IF Len(parts) = 1 THEN parts[1]
    ELSE parts[1] \o sep \o Join(Tail(parts), sep)

\* the fields of a well-formed line, in file order: error_enum,
\* check_implemented, testname, api, vuid_string, core_ext, error_string, note
DbRecordFields(implemented, testname, vuid, note) ==
    << <<"E">>, implemented, testname, <<"f">>, vuid, <<"c">>, <<"m">>, note >>

\* well-formed lines: each flag ("Y", "N", the invalid "X") with and without
\* an implicit note, with a test name, two test names or the sentinel None,
\* for either identifier
GoodDbFields ==
    { DbRecordFields(<<"Y">>, <<"T">>, VuidA, <<"n">>),
      DbRecordFields(<<"N">>, <<"N", "o", "n", "e">>, VuidA, <<"n">>),
      DbRecordFields(<<"X">>, <<"N", "o", "n", "e">>, VuidA, ImplicitWord),
      DbRecordFields(<<"Y">>, <<"T", ",", "U">>, VuidA, ImplicitWord),
      DbRecordFields(<<"N">>, <<"T">>, VuidA, ImplicitWord),
      DbRecordFields(<<"Y">>, <<"T", ",", "U">>, VuidB, <<"n">>),
      DbRecordFields(<<"N">>, <<"N", "o", "n", "e">>, VuidB, ImplicitWord),
      DbRecordFields(<<"X">>, <<"T">>, VuidB, <<"n">>) }

\* the texts a database line is drawn from, without the line break: the
\* well-formed lines, a line of 7 fields, a line of 9, a comment, a blank line
DbLinePool ==
    { Join(f, delimiter) : f \in GoodDbFields }
    \cup { Join(<< <<"E">>, <<"Y">>, <<"T">>, <<"f">>, VuidA, <<"c">>, <<"m">> >>,
                delimiter),
           Join(<< <<"E">>, <<"Y">>, <<"T">>, <<"f">>, VuidA, <<"c">>, <<"m">>,
                   <<"n">>, <<"z">> >>, delimiter),
           <<"#", SP, "c">>,
           <<SP>> }

\* everything outside the database reader, at rest
DbFrame ==
    /\ json_doc = Absent /\ disk = {} /\ test_lines = <<>>
    /\ files = [p \in AllPaths |-> <<>>]
    /\ verbose_mode = FALSE
    /\ val_json = NoJson /\ test_parser = NoTests
    /\ layer_source_files = ConfiguredLayerSourceFiles
    /\ val_source = NoSource /\ history = <<>>
    /\ rec = NoRec

InitDb ==
    /\ DbFrame
    /\ \E body \in SeqsUpTo(DbLinePool, MaxDbLines) : db_lines = FileLines(body, TRUE)
    /\ val_db = NoDb
    /\ scan = NoScan
    /\ printed = NoPrint
    /\ outcome = "running"
    /\ pc = "db"

\* lines 109-142: the line loop takes the next line of the database file
DbReadLine ==
    /\ outcome = "running"
    /\ pc = "db"
    /\ scan.line_num < Len(db_lines)
    /\ LET r == DbLine(val_db, db_lines[scan.line_num + 1])
       IN  /\ val_db' = r.db
           /\ printed' = IF r.reported
                         THEN [printed EXCEPT !.kinds = @ \cup {"bad_db_line"}]
                         ELSE printed
           /\ outcome' = IF r.raised THEN "raised" ELSE outcome
    /\ scan' = [scan EXCEPT !.line_num = @ + 1]
    /\ UNCHANGED <<inputs, val_json, layer_source_files, val_source, test_parser,
                   pc, rec, history>>

\* the line loop is exhausted: read returns
DbReadDone ==
    /\ outcome = "running"
    /\ pc = "db"
    /\ scan.line_num = Len(db_lines)
    /\ pc' = "db_done"
    /\ UNCHANGED <<inputs, objects, outcome, scan, rec, printed, history>>

NextDb == DbReadLine \/ DbReadDone

SpecDb == InitDb /\ [][NextDb]_vars

\* the line is passed over or splits into exactly 8 fields
DbLineAccepted(line) == DbLineIgnored(line) \/ Len(DbFields(line)) = 8

\* C6 as stated: a line that does not split into exactly 8 fields is skipped
\* and the load goes on: the load never aborts, and what has been loaded is
\* what the other lines read so far give.
C6_BadLineSkipped ==
    pc \in {"db", "db_done"} =>
        /\ outcome # "raised"
        /\ val_db = ReadDatabase(SelectSeq(SubSeq(db_lines, 1, scan.line_num),
                                           DbLineAccepted)).db

\* the lines read so far that are not passed over, by line number
RecordLinesRead == { i \in 1..scan.line_num : ~DbLineIgnored(db_lines[i]) }

\* every one of them is well formed: it splits into exactly 8 fields
WellFormedSoFar == \A i \in RecordLinesRead : Len(DbFields(db_lines[i])) = 8

\* the identifier field of line i
VuidOfLine(i) == DbFields(db_lines[i])[5]

\* line i is the last line read so far that carries its identifier
LastOfItsVuid(i) ==
    \A j \in RecordLinesRead : j > i => VuidOfLine(j) # VuidOfLine(i)

\* C11: after any number of well-formed lines, db_dict has one key per
\* distinct identifier read, and the record under a key holds the fields of
\* the last line read that carries the identifier.
C11_OneRecordLastWins ==
    (pc \in {"db", "db_done"} /\ WellFormedSoFar) =>
        /\ outcome = "running"
        /\ DOMAIN val_db.db_dict = { VuidOfLine(i) : i \in RecordLinesRead }
        /\ \A i \in RecordLinesRead :
              LastOfItsVuid(i) =>
                 LET f == DbFields(db_lines[i])
                 IN  val_db.db_dict[f[5]] =
                        [error_enum |-> f[1], check_implemented |-> f[2],
                         testname |-> f[3], api |-> f[4], core_ext |-> f[6],
                         error_string |-> f[7], note |-> f[8]]

\* a file of two well-formed lines for one identifier, with different flags,
\* has been read, and the record holds the flag of the second
C11_Witness ==
    /\ pc = "db_done"
    /\ scan.line_num = 2
    /\ RecordLinesRead = {1, 2}
    /\ WellFormedSoFar
    /\ VuidOfLine(1) = VuidOfLine(2)
    /\ DbFields(db_lines[1])[2] # DbFields(db_lines[2])[2]
    /\ val_db.db_dict[VuidOfLine(2)].check_implemented = DbFields(db_lines[2])[2]

\* the test-name field is one of 'unknown', 'none', 'nottestable' in some
\* mix of upper and lower case
SentinelTestName(t) ==
    \E s \in NoTestNames :
        /\ Len(t) = Len(s)
        /\ \A k \in 1..Len(s) :
              \/ t[k] = s[k]
              \/ \E j \in 1..26 : LowerCase[j] = s[k] /\ UpperCase[j] = t[k]

\* the identifiers of the lines read so far whose fields satisfy P
VuidsWhere(P(_)) ==
    { VuidOfLine(i) : i \in { j \in RecordLinesRead : P(DbFields(db_lines[j])) } }

\* C18: after any number of well-formed lines, the implemented set holds
\* the identifiers of the lines flagged "Y", the unimplemented-implicit set
\* those of the lines not flagged "Y" whose note contains "implicit", the
\* invalid-flag set those of the lines flagged neither "Y" nor "N", and
\* db_vuid_to_tests those of the lines whose test-name field is no sentinel,
\* each with the comma-separated names of the last such line.
C18_DerivedSets ==
    (pc \in {"db", "db_done"} /\ WellFormedSoFar) =>
        LET Flagged(f) == f[2] = <<"Y">>
            Implicit(f) == f[2] # <<"Y">> /\ Contains(f[8], ImplicitWord)
            Invalid(f) == f[2] # <<"Y">> /\ f[2] # <<"N">>
            Tested(f) == ~SentinelTestName(f[3])
        IN  /\ val_db.db_implemented_vuids = VuidsWhere(Flagged)
            /\ val_db.db_unimplemented_implicit = VuidsWhere(Implicit)
            /\ val_db.db_invalid_implemented = VuidsWhere(Invalid)
            /\ DOMAIN val_db.db_vuid_to_tests = VuidsWhere(Tested)
            /\ \A i \in RecordLinesRead :
                  LET f == DbFields(db_lines[i])
                  IN  (/\ Tested(f)
                       /\ \A j \in RecordLinesRead :
                            (j > i /\ VuidOfLine(j) = f[5])
                                => ~Tested(DbFields(db_lines[j])))
                      => val_db.db_vuid_to_tests[f[5]] = SplitOn(f[3], <<",">>)

\* two well-formed lines have been read: one flagged "X" with an implicit
\* note and the sentinel test name None, one flagged "Y" with two test names
C18_Witness ==
    /\ pc = "db_done"
    /\ RecordLinesRead = {1, 2}
    /\ WellFormedSoFar
    /\ \E i \in {1, 2} :
          LET f == DbFields(db_lines[i])
          IN  /\ f[2] = <<"X">>
              /\ f[3] = <<"N", "o", "n", "e">>
              /\ f[8] = ImplicitWord
              /\ f[5] \in val_db.db_invalid_implemented
              /\ f[5] \in val_db.db_unimplemented_implicit
    /\ \E i \in {1, 2} :
          LET f == DbFields(db_lines[i])
          IN  /\ f[2] = <<"Y">>
              /\ f[3] = <<"T", ",", "U">>
              /\ f[5] \in val_db.db_implemented_vuids
              /\ val_db.db_vuid_to_tests[f[5]] = << <<"T">>, <<"U">> >>

\* C22 as stated: after any number of well-formed lines, repeated identifiers
\* included, an identifier is in db_implemented_vuids exactly when its record
\* in db_dict has flag "Y", db_implemented_vuids and db_unimplemented_implicit
\* are disjoint, and db_vuid_to_tests holds an identifier exactly when the
\* test-name field of its record is no sentinel.
C22_DerivedAgreeWithRecords ==
    (pc \in {"db", "db_done"} /\ WellFormedSoFar) =>
        /\ val_db.db_implemented_vuids =
              { v \in DOMAIN val_db.db_dict :
                    val_db.db_dict[v].check_implemented = <<"Y">> }
        /\ val_db.db_implemented_vuids \cap val_db.db_unimplemented_implicit = {}
        /\ DOMAIN val_db.db_vuid_to_tests =
              { v \in DOMAIN val_db.db_dict :
                    ~SentinelTestName(val_db.db_dict[v].testname) }

(***************************************************************************)
(* TestParser.                                                             *)
(***************************************************************************)
\* test_trigger_txt_list for the default test_group_name: 'TEST_F(%s' % tg
test_trigger_txt_list ==
    { <<"T", "E", "S", "T", "_", "F", "(", "V", "k", "L", "a", "y", "e", "r", "T", "e", "s", "t">>,
      <<"T", "E", "S", "T", "_", "F", "(", "V", "k", "P", "o", "s", "i", "t", "i", "v", "e", "L", "a", "y", "e", "r", "T", "e", "s", "t">>,
      <<"T", "E", "S", "T", "_", "F", "(", "V", "k", "W", "s", "i", "E", "n", "a", "b", "l", "e", "d", "L", "a", "y", "e", "r", "T", "e", "s", "t">> }

\* testname.strip().strip(' {)')
TrimTestName(s) == Strip(Strip(s, Whitespace), {SP, "{", ")"})

\* the characters TestParser.parse strips from a token
TestStripChars == {",", ")", ";", DQ}

RECURSIVE AppendTokens(_, _, _)
\* lines 329-334: every token holding the marker is trimmed and appended to
\* the list of testname; a testname that is no key raises KeyError
AppendTokens(st, toks, testname) ==
    IF toks = <<>> \/ st.raised THEN st
    ELSE AppendTokens(
            IF ~Contains(Head(toks), VuidMarker) THEN st
            ELSE IF testname \notin DOMAIN st.tte THEN [st EXCEPT !.raised = TRUE]
            ELSE [st EXCEPT !.tte[testname] =
                        Append(@, Strip(Head(toks), TestStripChars))],
            Tail(toks), testname)

\* lines 300-334: the body of the line loop of TestParser.parse on the state
\* st = [grab_next_line, testname, prepend, tte, raised], tte being
\* test_to_errors
TestLine(st, line) ==
    IF IsCommentLine(line) THEN st
    ELSE
    LET joined == IF st.prepend # None
                  THEN JoinPrepend(st.prepend, line)
                  ELSE line
        line_list == Split(joined)
    IN  IF Contains(joined, VuidMarker) /\ IsBrokenVuid(line_list[Len(line_list)])
        THEN [st EXCEPT !.prepend = joined]
        ELSE
        LET s0 == [st EXCEPT !.prepend = None]
            triggered == \E ttt \in test_trigger_txt_list : Contains(joined, ttt)
            pieces == SplitOn(joined, <<",">>)
            name == TrimTestName(pieces[Len(pieces)])
        IN  IF triggered /\ name = <<>>
            THEN [s0 EXCEPT !.testname = name, !.grab_next_line = TRUE]
            ELSE
            LET s1 == IF triggered
                      THEN [s0 EXCEPT !.testname = name,
                                      !.tte = DictPut(@, name, <<>>)]
                      ELSE s0
                s2 == IF s1.grab_next_line
                      THEN [s1 EXCEPT !.grab_next_line = FALSE,
                                      !.testname = TrimTestName(@),
                                      !.tte = DictPut(@, TrimTestName(s1.testname), <<>>)]
                      ELSE s1
            IN  IF Contains(joined, VuidMarker)
                THEN AppendTokens(s2, line_list, s2.testname)
                ELSE s2

RECURSIVE TestLines(_, _)
\* lines 299-334: the line loop over one file, up to the line that raises
TestLines(st, lines) ==
    IF lines = <<>> \/ st.raised THEN st
    ELSE TestLines(TestLine(st, Head(lines)), Tail(lines))

\* lines 294-296: the locals of TestParser.parse before the file loop
NoTestScan == [grab_next_line |-> FALSE, testname |-> <<>>, prepend |-> None,
               tte |-> EmptyDict, raised |-> FALSE]

\* lines 292-334: TestParser([test_file]).parse() as a whole
ParseTests(lines) == TestLines(NoTestScan, lines)

(***************************************************************************)
(* main: the four loads, then the reconciliation of lines 386-504.         *)
(***************************************************************************)
\* duplicate_exceptions (lines 79-94): every entry is an identifier written
\* with its quotes.  The model's list names VUID-a.
duplicate_exceptions == { <<DQ>> \o VuidA \o <<DQ>> }

\* line 408: db_missing
DbMissing(json_vuids, db_keys) == json_vuids \ db_keys

\* json_missing taken the wrong way round
JsonMissing_Swapped(json_vuids, db_keys) == json_vuids \ db_keys

\* line 409: json_missing
JsonMissing(json_vuids, db_keys) == db_keys \ json_vuids

\* line 410: the database and validusage.json match
DbMatchesJson(num_db_vuids, num_json_vuids, db_missing, json_missing) ==
    /\ num_db_vuids = num_json_vuids
    /\ Cardinality(db_missing) = 0
    /\ Cardinality(json_missing) = 0

\* line 431: imp_not_found
ImpNotFound(db_implemented, imp_vuids) == db_implemented \ imp_vuids

\* line 432: imp_not_claimed
ImpNotClaimed(db_implemented, imp_vuids) == imp_vuids \ db_implemented

\* lines 434 and 462: the identifier is used more than once and is not excepted
IsMultipleUse(vcd, src_vuid) ==
    vcd[src_vuid].count > 1 /\ src_vuid \notin duplicate_exceptions

\* bad_testnames also taking the names of tests that do not check the identifier
BadTestNames_NotChecking(vuid_to_tests, tte) ==
    { n \in UNION { Range(vuid_to_tests[vuid]) : vuid \in DOMAIN vuid_to_tests } :
        \/ n \notin DOMAIN tte
        \/ \E vuid \in DOMAIN vuid_to_tests :
                n \in Range(vuid_to_tests[vuid]) /\ vuid \notin Range(tte[n]) }

\* lines 470-473: the names bad_testnames holds (the list's order and
\* repetitions only shape the printout)
BadTestNames(vuid_to_tests, tte) ==
    (UNION { Range(vuid_to_tests[vuid]) : vuid \in DOMAIN vuid_to_tests })
    \ DOMAIN tte

\* lines 470-484: tests_missing_vuid, each list as the set of its members
TestsMissingVuid(vuid_to_tests, tte) ==
    LET missing(testname) ==
            { vuid \in DOMAIN vuid_to_tests :
                /\ \E i \in 1..Len(vuid_to_tests[vuid]) :
                        vuid_to_tests[vuid][i] = testname
                /\ \A j \in 1..Len(tte[testname]) : tte[testname][j] # vuid }
    IN  [testname \in { n \in DOMAIN tte : missing(n) # {} } |-> missing(testname)]

\* lines 366-367: val_db = ValidationDatabase(); val_db.read(verbose_mode)
MainReadDb ==
    /\ outcome = "running"
    /\ pc = "main_db"
    /\ LET r == ReadDatabase(db_lines)
       IN  /\ val_db' = r.db
           /\ printed' = IF r.reported
                         THEN [printed EXCEPT !.kinds = @ \cup {"bad_db_line"}]
                         ELSE printed
           /\ outcome' = IF r.raised THEN "raised" ELSE outcome
           /\ pc' = IF r.raised THEN pc ELSE "main_json"
    /\ UNCHANGED <<inputs, val_json, layer_source_files, val_source, test_parser,
                   scan, rec, history>>

\* lines 372-374: val_json = ValidationJSON(); val_json.read(verbose_mode)
MainReadJson ==
    /\ outcome = "running"
    /\ pc = "main_json"
    /\ LET r == ReadJson(NoJson, json_doc)
       IN  /\ val_json' = r.js
           /\ outcome' = r.outcome
           /\ pc' = IF r.outcome = "running" THEN "main_source" ELSE pc
    /\ UNCHANGED <<inputs, val_db, layer_source_files, val_source, test_parser,
                   scan, rec, printed, history>>

\* line 376: val_source = ValidationSource(layer_source_files, ...)
MainNewSource ==
    /\ outcome = "running"
    /\ pc = "main_source"
    /\ LET r == NewSource(layer_source_files, generated_layer_source_files,
                          generated_layer_source_directories, disk)
       IN  IF r.exited
           THEN /\ outcome' = "exited"
                /\ UNCHANGED <<pc, layer_source_files, val_source>>
           ELSE /\ layer_source_files' = r.source_files
                /\ val_source' = [source_files |-> r.source_files,
                                  vuid_count_dict |-> EmptyDict]
                /\ pc' = "main_parse"
                /\ UNCHANGED outcome
    /\ UNCHANGED <<inputs, val_db, val_json, test_parser, scan, rec, printed,
                   history>>

\* lines 377-378: val_source.parse(verbose_mode)
MainParseSource ==
    /\ outcome = "running"
    /\ pc = "main_parse"
    /\ val_source' = [val_source EXCEPT !.vuid_count_dict =
                        ParseSource(@, val_source.source_files, files)]
    /\ pc' = "main_tests"
    /\ UNCHANGED <<inputs, val_db, val_json, layer_source_files, test_parser,
                   outcome, scan, rec, printed, history>>

\* lines 380-382: test_parser = TestParser([test_file, ]); test_parser.parse()
MainParseTests ==
    /\ outcome = "running"
    /\ pc = "main_tests"
    /\ LET r == ParseTests(test_lines)
       IN  /\ test_parser' = [test_to_errors |-> r.tte]
           /\ outcome' = IF r.raised THEN "raised" ELSE outcome
           /\ pc' = IF r.raised THEN pc ELSE "main_flags"
    /\ UNCHANGED <<inputs, val_db, val_json, layer_source_files, val_source,
                   scan, rec, printed, history>>

\* lines 392-393
num_db_vuids == Cardinality(DOMAIN val_db.db_dict)
num_json_vuids == Cardinality(val_json.vuids)

\* lines 398-404: the checks with an invalid check_implemented flag
CheckInvalidFlags ==
    /\ outcome = "running"
    /\ pc = "main_flags"
    /\ IF Cardinality(val_db.db_invalid_implemented) > 0
       THEN /\ rec' = [rec EXCEPT !.result = 1]
            /\ printed' = [printed EXCEPT !.kinds = @ \cup {"invalid_flag"}]
       ELSE UNCHANGED <<rec, printed>>
    /\ pc' = "main_spec"
    /\ UNCHANGED <<inputs, objects, outcome, scan, history>>

\* lines 406-423: the database against validusage.json
CheckSpecVsDb ==
    /\ outcome = "running"
    /\ pc = "main_spec"
    /\ LET db_keys == DOMAIN val_db.db_dict
           db_missing == DbMissing(val_json.vuids, db_keys)
           json_missing == JsonMissing(val_json.vuids, db_keys)
       IN  IF DbMatchesJson(num_db_vuids, num_json_vuids, db_missing, json_missing)
           THEN /\ rec' = [rec EXCEPT !.db_missing = db_missing,
                                      !.json_missing = json_missing]
                /\ UNCHANGED printed
           ELSE /\ rec' = [rec EXCEPT !.db_missing = db_missing,
                                      !.json_missing = json_missing,
                                      !.result = 1]
                /\ printed' = [printed EXCEPT !.kinds = @
                        \cup {"db_json_mismatch"}
                        \cup (IF Cardinality(db_missing) # 0
                              THEN {"db_missing"} ELSE {})
                        \cup (IF Cardinality(json_missing) # 0
                              THEN {"json_missing"} ELSE {})]
    /\ pc' = "main_found"
    /\ UNCHANGED <<inputs, objects, outcome, scan, history>>

\* lines 428-442: what is implemented in source, which identifiers are used
\* more than once, and in verbose mode the share of the database that is
\* claimed implemented: a division by num_db_vuids, which raises
\* ZeroDivisionError when the database is empty
FindImplemented ==
    /\ outcome = "running"
    /\ pc = "main_found"
    /\ LET imp_vuids == DOMAIN val_source.vuid_count_dict
       IN  rec' = [rec EXCEPT
                !.multiple_uses = \E src_vuid \in imp_vuids :
                        IsMultipleUse(val_source.vuid_count_dict, src_vuid),
                !.imp_not_found = ImpNotFound(val_db.db_implemented_vuids, imp_vuids),
                !.imp_not_claimed = ImpNotClaimed(val_db.db_implemented_vuids, imp_vuids)]
    /\ IF verbose_mode /\ num_db_vuids = 0
       THEN outcome' = "raised" /\ UNCHANGED pc
       ELSE pc' = "main_compare" /\ UNCHANGED outcome
    /\ UNCHANGED <<inputs, objects, scan, printed, history>>

\* lines 443-456: the implemented set against the identifiers found in source
CheckImplemented ==
    /\ outcome = "running"
    /\ pc = "main_compare"
    /\ IF Cardinality(rec.imp_not_found) = 0 /\ Cardinality(rec.imp_not_claimed) = 0
       THEN UNCHANGED <<rec, printed>>
       ELSE /\ rec' = [rec EXCEPT !.result = 1]
            /\ printed' = [printed EXCEPT !.kinds = @
                    \cup {"imp_mismatch"}
                    \cup (IF Cardinality(rec.imp_not_found) # 0
                          THEN {"imp_not_found"} ELSE {})
                    \cup (IF Cardinality(rec.imp_not_claimed) # 0
                          THEN {"imp_not_claimed"} ELSE {})]
    /\ pc' = "main_uses"
    /\ UNCHANGED <<inputs, objects, outcome, scan, history>>

\* lines 458-465: the note on identifiers used more than once
ReportMultipleUses ==
    /\ outcome = "running"
    /\ pc = "main_uses"
    /\ IF rec.multiple_uses /\ verbose_mode
       THEN printed' = [printed EXCEPT
                !.kinds = @ \cup {"multiple_uses"},
                !.uses = { vuid \in DOMAIN val_source.vuid_count_dict :
                            IsMultipleUse(val_source.vuid_count_dict, vuid) }]
       ELSE UNCHANGED printed
    /\ pc' = "main_testnames"
    /\ UNCHANGED <<inputs, objects, outcome, scan, rec, history>>

\* lines 467-502: the test names the database claims
CheckTestNames ==
    /\ outcome = "running"
    /\ pc = "main_testnames"
    /\ LET bad_testnames == BadTestNames(val_db.db_vuid_to_tests,
                                         test_parser.test_to_errors)
           tests_missing_vuid == TestsMissingVuid(val_db.db_vuid_to_tests,
                                                  test_parser.test_to_errors)
       IN  /\ rec' = [rec EXCEPT
                    !.bad_testnames = bad_testnames,
                    !.tests_missing_vuid = tests_missing_vuid,
                    !.result = IF Cardinality(bad_testnames) = 0 THEN @ ELSE 1]
           /\ printed' = [printed EXCEPT !.kinds = @
                    \cup (IF DOMAIN tests_missing_vuid # {} /\ verbose_mode
                          THEN {"tests_missing_vuid"} ELSE {})
                    \cup (IF Cardinality(bad_testnames) = 0
                          THEN {} ELSE {"bad_testnames"})]
    /\ pc' = "main_return"
    /\ UNCHANGED <<inputs, objects, outcome, scan, history>>

\* line 504: return result
Return ==
    /\ outcome = "running"
    /\ pc = "main_return"
    /\ outcome' = "returned"
    /\ UNCHANGED <<inputs, objects, pc, scan, rec, printed, history>>

(***************************************************************************)
(* SpecMain: a whole run of main on small artifacts: a database of at most *)
(* MaxDbLines well-formed lines, five specification documents, layer and   *)
(* generated sources of at most one line, four test files, with and        *)
(* without verbose.                                                        *)
(***************************************************************************)
\* error_enum, check_implemented, testname, api, vuid_string, core_ext,
\* error_string, note
DbRecordLine(implemented, testname, vuid) ==
    Join(<< <<"E">>, implemented, testname, <<"f">>, vuid, <<"c">>, <<"m">>,
            <<"n">> >>, delimiter)

MainDbLinePool ==
    { DbRecordLine(<<"Y">>, <<"T">>, VuidA),
      DbRecordLine(<<"N">>, <<"N", "o", "n", "e">>, VuidA),
      DbRecordLine(<<"X">>, <<"T">>, VuidA),
      DbRecordLine(<<"Y">>, <<"U">>, VuidB) }

\* no file, {}, {"a": "VUID-a"}, {"vuid": "VUID-a"},
\* {"a": [{"vuid": "VUID-a"}, {"vuid": "VUID-b"}]}
MainDocuments ==
    { Absent,
      Obj(<<>>),
      Obj(<<Member("a", Str(VuidA))>>),
      Obj(<<Member("vuid", Str(VuidA))>>),
      Obj(<<Member("a", Arr(<<Element(Obj(<<Member("vuid", Str(VuidA))>>)),
                              Element(Obj(<<Member("vuid", Str(VuidB))>>))>>))>>) }

\* x "VUID-a",   and   x "VUID-b",
UseOfA == <<"x", SP>> \o TokA \o <<DQ, ",", NL>>
UseOfB == <<"x", SP>> \o TokB \o <<DQ, ",", NL>>

\* the layer sources hold nothing or a use of VUID-a, the generated source in
\* build nothing or a use of VUID-b
MainSources ==
    { [p \in AllPaths |->
          IF p = ConfiguredLayerSourceFiles[1] THEN c1
          ELSE IF p = ConfiguredLayerSourceFiles[2] THEN c2
          ELSE IF p = GeneratedPath("build", "parameter_validation.cpp") THEN g
          ELSE <<>>] :
        c1 \in {<<>>, <<UseOfA>>}, c2 \in {<<>>, <<UseOfA>>}, g \in {<<>>, <<UseOfB>>} }

\* TEST_F(VkLayerTest, T) {   and   TEST_F(VkLayerTest, U) {
DeclareT == <<"T", "E", "S", "T", "_", "F", "(", "V", "k", "L", "a", "y", "e", "r", "T", "e", "s", "t", ",", " ", "T", ")", " ", "{">> \o <<NL>>
DeclareU == <<"T", "E", "S", "T", "_", "F", "(", "V", "k", "L", "a", "y", "e", "r", "T", "e", "s", "t", ",", " ", "U", ")", " ", "{">> \o <<NL>>

\* no test; T checking VUID-a; T checking nothing; T checking VUID-a and U
\* checking VUID-b
MainTestFiles ==
    { <<>>,
      <<DeclareT, UseOfA>>,
      <<DeclareT>>,
      <<DeclareT, UseOfA, DeclareU, UseOfB>> }

InitMain ==
    /\ \E body \in SeqsUpTo(MainDbLinePool, MaxDbLines) : db_lines = FileLines(body, TRUE)
    /\ json_doc \in MainDocuments
    /\ disk \in { {}, {GeneratedPath("build", "parameter_validation.cpp")} }
    /\ files \in MainSources
    /\ test_lines \in MainTestFiles
    /\ verbose_mode \in BOOLEAN
    /\ val_db = NoDb /\ val_json = NoJson /\ test_parser = NoTests
    /\ layer_source_files = ConfiguredLayerSourceFiles
    /\ val_source = NoSource /\ scan = NoScan /\ history = <<>>
    /\ rec = NoRec /\ printed = NoPrint /\ outcome = "running"
    /\ pc = "main_db"

NextMain ==
    \/ MainReadDb \/ MainReadJson \/ MainNewSource \/ MainParseSource
    \/ MainParseTests
    \/ CheckInvalidFlags \/ CheckSpecVsDb \/ FindImplemented \/ CheckImplemented
    \/ ReportMultipleUses \/ CheckTestNames \/ Return

SpecMain == InitMain /\ [][NextMain]_vars

\* the steps of main from the first reconciliation step on
ReconPcs == {"main_flags", "main_spec", "main_found", "main_compare",
             "main_uses", "main_testnames", "main_return"}

\* none of the four failure conditions holds of the loaded collections
NoFailure ==
    /\ val_db.db_invalid_implemented = {}
    /\ val_json.vuids = DOMAIN val_db.db_dict
    /\ val_db.db_implemented_vuids = DOMAIN val_source.vuid_count_dict
    /\ \A vuid \in DOMAIN val_db.db_vuid_to_tests :
          \A i \in 1..Len(val_db.db_vuid_to_tests[vuid]) :
              val_db.db_vuid_to_tests[vuid][i] \in DOMAIN test_parser.test_to_errors

\* C1 as stated: once the four collections are loaded, main returns, and it
\* returns 0 exactly when no failure condition holds.
C1_ExitStatus ==
    (pc \in ReconPcs /\ outcome # "running") =>
        /\ outcome = "returned"
        /\ rec.result = 0 <=> NoFailure

\* the identifier is named by an entry of the allow-list
NamedByAllowList(vuid) == \E e \in duplicate_exceptions : Strip(e, {DQ}) = vuid

\* C4 as stated: an identifier the allow-list names never sets multiple_uses
\* and is never listed; one used more than once that it does not name sets
\* the flag, and is listed when the note is printed.
C4_AllowListed ==
    pc \in {"main_testnames", "main_return"} =>
        LET vcd == val_source.vuid_count_dict
            flagged == { v \in DOMAIN vcd : vcd[v].count > 1 /\ ~NamedByAllowList(v) }
        IN  /\ rec.multiple_uses <=> flagged # {}
            /\ \A v \in DOMAIN vcd : NamedByAllowList(v) => v \notin printed.uses
            /\ verbose_mode => flagged \subseteq printed.uses

\* the identifier is recorded in tests_missing_vuid for the test
RecordedMissing(testname, vuid) ==
    /\ testname \in DOMAIN rec.tests_missing_vuid
    /\ vuid \in rec.tests_missing_vuid[testname]

\* the (identifier, test name) pairs of db_vuid_to_tests
ClaimedPairs ==
    UNION { { <<vuid, val_db.db_vuid_to_tests[vuid][i]>> :
                i \in 1..Len(val_db.db_vuid_to_tests[vuid]) } :
            vuid \in DOMAIN val_db.db_vuid_to_tests }

\* C7: after the test-name step, a pair whose test name is unknown is in
\* bad_testnames and the run has failed; a pair whose test is known and does
\* not list the identifier is in tests_missing_vuid only; a pair whose test
\* lists the identifier is in neither; nothing else is recorded, and with no
\* failure condition the result is still 0.
C7_TestNames ==
    pc = "main_return" =>
        LET tte == test_parser.test_to_errors IN
        /\ \A pr \in ClaimedPairs :
             LET vuid == pr[1]
                 testname == pr[2]
             IN  IF testname \notin DOMAIN tte
                 THEN /\ testname \in rec.bad_testnames
                      /\ rec.result = 1
                      /\ ~RecordedMissing(testname, vuid)
                 ELSE /\ testname \notin rec.bad_testnames
                      /\ RecordedMissing(testname, vuid) <=> vuid \notin Range(tte[testname])
        /\ \A testname \in rec.bad_testnames :
             \E pr \in ClaimedPairs : pr[2] = testname
        /\ \A testname \in DOMAIN rec.tests_missing_vuid :
             \A vuid \in rec.tests_missing_vuid[testname] :
                <<vuid, testname>> \in ClaimedPairs
        /\ NoFailure => rec.result = 0

\* a run that fails on nothing, with a test that does not check its identifier
C7_Witness ==
    /\ pc = "main_return"
    /\ rec.result = 0
    /\ \E pr \in ClaimedPairs : RecordedMissing(pr[2], pr[1])

\* C8: from the specification/database step on, db_missing and json_missing
\* are the two differences, each is reported exactly when it is not empty,
\* and the step has failed the run exactly when one of them is not empty.
C8_SpecVsDatabase ==
    pc \in (ReconPcs \ {"main_flags", "main_spec"}) =>
        LET db_keys == DOMAIN val_db.db_dict
            mismatch == val_json.vuids # db_keys
        IN  /\ rec.db_missing = val_json.vuids \ db_keys
            /\ rec.json_missing = db_keys \ val_json.vuids
            /\ "db_json_mismatch" \in printed.kinds <=> mismatch
            /\ "db_missing" \in printed.kinds <=> rec.db_missing # {}
            /\ "json_missing" \in printed.kinds <=> rec.json_missing # {}
            /\ mismatch => rec.result = 1
            /\ pc = "main_found" =>
                  (rec.result = 1 <=> (mismatch \/ val_db.db_invalid_implemented # {}))

\* the step has run on collections that differ in both directions
C8_Witness ==
    /\ pc = "main_found"
    /\ rec.db_missing # {}
    /\ rec.json_missing # {}
    /\ rec.result = 1

\* C9 as stated: a run that reached reconciliation reports the
\* implemented/source mismatch exactly when the implemented set differs from
\* the identifiers found in source, with imp_not_found and imp_not_claimed
\* the two differences.
C9_ImplementedVsSource ==
    (pc \in ReconPcs /\ outcome \in {"returned", "raised"}) =>
        LET imp_vuids == DOMAIN val_source.vuid_count_dict
            claimed == val_db.db_implemented_vuids
        IN  /\ rec.imp_not_found = claimed \ imp_vuids
            /\ rec.imp_not_claimed = imp_vuids \ claimed
            /\ "imp_mismatch" \in printed.kinds <=> claimed # imp_vuids
            /\ claimed # imp_vuids => rec.result = 1

\* C12 as stated: with validusage.json absent or empty, the run stops in
\* ValidationJSON.read by the error exit of that method, and no
\* reconciliation step has run or reported.
C12_SpecFileErrors ==
    (json_doc \in {Absent, Obj(<<>>)} /\ pc # "main_db") =>
        /\ pc = "main_json"
        /\ outcome \in {"running", "exited"}
        /\ rec = NoRec
        /\ printed.kinds \subseteq {"bad_db_line"}

\* the reconciliation steps in the order of the code, then the return
ReconOrder == <<"main_flags", "main_spec", "main_found", "main_compare",
                "main_uses", "main_testnames", "main_return">>

\* C20 as stated: from every reconciliation step the run goes on to the next
\* one, whatever the result so far, and a result of 1 stays 1.
C20_StepsIndependent ==
    [][ /\ rec.result = 1 => rec'.result = 1
        /\ \A i \in 1..(Len(ReconOrder) - 1) :
              pc = ReconOrder[i] =>
                 (outcome' = "running" /\ pc' = ReconOrder[i + 1]) ]_vars

(***************************************************************************)
(* SpecVerbose: the script run twice on the same artifacts, first without  *)
(* the verbose argument and then with it. history keeps how the first run  *)
(* ended.                                                                  *)
(***************************************************************************)
\* the first run: main without 'verbose' in sys.argv
InitVerbose == InitMain /\ verbose_mode = FALSE

\* lines 506-507: the first process has ended; the script is started again
\* with 'verbose', on the same artifacts and with fresh module state
RunVerbose ==
    /\ outcome # "running"
    /\ ~verbose_mode
    /\ history = <<>>
    /\ history' = <<[outcome |-> outcome, result |-> rec.result]>>
    /\ verbose_mode' = TRUE
    /\ val_db' = NoDb /\ val_json' = NoJson /\ test_parser' = NoTests
    /\ layer_source_files' = ConfiguredLayerSourceFiles
    /\ val_source' = NoSource
    /\ rec' = NoRec /\ printed' = NoPrint
    /\ outcome' = "running"
    /\ pc' = "main_db"
    /\ UNCHANGED <<db_lines, json_doc, disk, files, test_lines, scan>>

NextVerbose ==
    \/ MainReadDb \/ MainReadJson \/ MainNewSource \/ MainParseSource
    \/ MainParseTests
    \/ CheckInvalidFlags \/ CheckSpecVsDb \/ FindImplemented \/ CheckImplemented
    \/ ReportMultipleUses \/ CheckTestNames \/ Return
    \/ RunVerbose

SpecVerbose == InitVerbose /\ [][NextVerbose]_vars

\* C24 as stated: for the same four artifacts the run with verbose ends as
\* the run without it ended: it returns when that one returned, with the
\* same result, an empty database included.
C24_VerboseSameOutcome ==
    (verbose_mode /\ history # <<>> /\ outcome # "running") =>
        /\ outcome = history[1].outcome
        /\ rec.result = history[1].result

(***************************************************************************)
(* SpecTest: TestParser.parse, line by line, over every way to put at most *)
(* MaxTestLines lines of TestLinePool into two test files.                 *)
(***************************************************************************)
\* a test_file_list of two files: test_file (line 76) and one more
TestFileList == << <<"tests", "layer_validation_tests.cpp">>,
                   <<"tests", "more_tests.cpp">> >>

\* 'TEST_F(VkLayerTest'
TriggerText == <<"T", "E", "S", "T", "_", "F", "(", "V", "k", "L", "a", "y", "e", "r", "T", "e", "s", "t">>

\* the texts a test line is drawn from, without the line break
TestLinePool ==
    { TriggerText \o <<",", SP, "T", ")", SP, "{">>,       \* TEST_F(VkLayerTest, T) {
      <<"x", SP>> \o TokA \o <<DQ, ",">>,                  \* x "VUID-a",
      TriggerText \o <<",">>,                              \* TEST_F(VkLayerTest,
      <<SP, "U", ")", SP, "{">>,                           \*  U) {
      TriggerText \o <<",", SP, "T", ")", SP, "{", SP, "f", "(", "x", ",", SP, "y", ")", ";">>,
                                                           \* TEST_F(VkLayerTest, T) { f(x, y);
      TriggerText \o <<",", SP, "T", ")", SP, "{", SP, "f", "(">> \o TokB \o <<DQ, ",">> }
                                                           \* TEST_F(VkLayerTest, T) { f("VUID-b",

\* the two test files holding the lines of body, cut after line cut
TwoTestFiles(body, cut, final_nl) ==
    [p \in {TestFileList[1], TestFileList[2]} |->
        IF p = TestFileList[1]
        THEN FileLines(SubSeq(body, 1, cut), final_nl)
        ELSE FileLines(SubSeq(body, cut + 1, Len(body)), final_nl)]

\* lines 283-296: the parser as constructed, and the locals of parse before
\* the file loop
InitTest ==
    /\ db_lines = <<>> /\ json_doc = Absent /\ test_lines = <<>> /\ disk = {}
    /\ verbose_mode = FALSE
    /\ val_db = NoDb /\ val_json = NoJson /\ val_source = NoSource
    /\ layer_source_files = ConfiguredLayerSourceFiles
    /\ rec = NoRec /\ printed = NoPrint /\ history = <<>>
    /\ \E body \in SeqsUpTo(TestLinePool, MaxTestLines), final_nl \in BOOLEAN :
         \E cut \in 0..Len(body) : files = TwoTestFiles(body, cut, final_nl)
    /\ test_parser = [test_files |-> TestFileList, test_to_errors |-> EmptyDict]
    /\ scan = [idx |-> 1, line_num |-> 0, prepend |-> None,
               grab_next_line |-> FALSE, testname |-> <<>>]
    /\ outcome = "running"
    /\ pc = "test_file"

\* the file the parse loop is in
CurrentTestFile == test_parser.test_files[scan.idx]

\* lines 297-298: the file loop takes the next file
TestOpenFile ==
    /\ outcome = "running"
    /\ pc = "test_file"
    /\ scan.idx <= Len(test_parser.test_files)
    /\ scan' = [scan EXCEPT !.line_num = 0]
    /\ pc' = "test_line"
    /\ UNCHANGED <<inputs, objects, outcome, rec, printed, history>>

\* lines 299-334: the line loop takes the next line of the file
TestReadLine ==
    /\ outcome = "running"
    /\ pc = "test_line"
    /\ scan.line_num < Len(files[CurrentTestFile])
    /\ LET st == TestLine([grab_next_line |-> scan.grab_next_line,
                           testname |-> scan.testname,
                           prepend |-> scan.prepend,
                           tte |-> test_parser.test_to_errors,
                           raised |-> FALSE],
                          files[CurrentTestFile][scan.line_num + 1])
       IN  /\ scan' = [scan EXCEPT !.line_num = @ + 1,
                                   !.prepend = st.prepend,
                                   !.grab_next_line = st.grab_next_line,
                                   !.testname = st.testname]
           /\ test_parser' = [test_parser EXCEPT !.test_to_errors = st.tte]
           /\ outcome' = IF st.raised THEN "raised" ELSE outcome
    /\ UNCHANGED <<inputs, val_db, val_json, layer_source_files, val_source,
                   pc, rec, printed, history>>

\* the line loop is exhausted: the file is closed, on to the next
TestCloseFile ==
    /\ outcome = "running"
    /\ pc = "test_line"
    /\ scan.line_num = Len(files[CurrentTestFile])
    /\ scan' = [scan EXCEPT !.idx = @ + 1]
    /\ pc' = "test_file"
    /\ UNCHANGED <<inputs, objects, outcome, rec, printed, history>>

\* the file loop is exhausted: parse returns
TestDone ==
    /\ outcome = "running"
    /\ pc = "test_file"
    /\ scan.idx > Len(test_parser.test_files)
    /\ pc' = "test_done"
    /\ UNCHANGED <<inputs, objects, outcome, scan, rec, printed, history>>

NextTest == TestOpenFile \/ TestReadLine \/ TestCloseFile \/ TestDone

SpecTest == InitTest /\ [][NextTest]_vars

\* the line holds one of the trigger texts
HasTrigger(line) == \E ttt \in test_trigger_txt_list : Contains(line, ttt)

\* the text of the line after its first comma
AfterFirstComma(line) ==
    LET i == CHOOSE j \in 1..Len(line) :
                line[j] = "," /\ \A h \in 1..(j - 1) : line[h] # ","
    IN  SubSeq(line, i + 1, Len(line))

\* the text trimmed of whitespace, then of trailing '{', ')' and blanks
ClaimedName(text) == RStrip(Strip(text, Whitespace), {SP, "{", ")"})

\* the identifier tokens of the line, trimmed, in token order
IdTokens(line) ==
    LET toks == SelectSeq(Split(line), LAMBDA t : Contains(t, VuidMarker))
    IN  [i \in 1..Len(toks) |-> Strip(toks[i], TestStripChars)]

\* the line loop is about to read a line, which is not a comment line
ReadingTestLine ==
    /\ pc = "test_line"
    /\ outcome = "running"
    /\ scan.line_num < Len(files[CurrentTestFile])
    /\ ~CommentText(files[CurrentTestFile][scan.line_num + 1])

\* the line the line loop reads next
NextTestLine == files[CurrentTestFile][scan.line_num + 1]

RECURSIVE LinesBefore(_)
\* the lines of the files before file number k of the list, in order
LinesBefore(k) ==
    IF k = 1 THEN <<>>
    ELSE LinesBefore(k - 1) \o files[test_parser.test_files[k - 1]]

\* C14 as stated: as long as no line read in the current file holds a
\* trigger, the scan has not failed and every identifier list is as it was
\* when the file was opened; a name registered since then has an empty list.
C14_EarlyIdsDiscarded ==
    (/\ pc = "test_line"
     /\ \A i \in 1..scan.line_num : ~HasTrigger(files[CurrentTestFile][i]))
    => /\ outcome = "running"
       /\ LET before == TestLines(NoTestScan, LinesBefore(scan.idx)).tte
              now == test_parser.test_to_errors
          IN  \A n \in DOMAIN now :
                 now[n] = IF n \in DOMAIN before THEN before[n] ELSE <<>>

\* C15 as stated: a trigger line with nothing but blanks and brackets after
\* its comma sets the flag; with the flag set, the next line read (one that
\* holds no trigger and no identifier) registers its own trimmed text with
\* an empty list and clears the flag.
C15_NameOnNextLine ==
    [][ ReadingTestLine =>
        /\ (/\ HasTrigger(NextTestLine)
            /\ Contains(NextTestLine, <<",">>)
            /\ TrimTestName(AfterFirstComma(NextTestLine)) = <<>>)
           => scan'.grab_next_line
        /\ (/\ scan.grab_next_line
            /\ ~HasTrigger(NextTestLine)
            /\ ~Contains(NextTestLine, VuidMarker))
           => /\ outcome' = "running"
              /\ ~scan'.grab_next_line
              /\ TrimTestName(NextTestLine) \in DOMAIN test_parser'.test_to_errors
              /\ test_parser'.test_to_errors[TrimTestName(NextTestLine)] = <<>>
      ]_vars

\* C16 as stated: reading a line with identifier tokens appends them, in
\* order, to the list of the test name the parser then holds (a list that
\* starts empty when the line registers the name), and changes no other list.
C16_IdsToLatestTest ==
    [][ (ReadingTestLine /\ scan.prepend = None /\ IdTokens(NextTestLine) # <<>>) =>
        LET old == test_parser.test_to_errors
            new == test_parser'.test_to_errors
            n == scan'.testname
            fresh == HasTrigger(NextTestLine) \/ scan.grab_next_line
        IN  /\ outcome' = "running"
            /\ n \in DOMAIN new
            /\ new[n] = (IF n \in DOMAIN old /\ ~fresh THEN old[n] ELSE <<>>)
                        \o IdTokens(NextTestLine)
            /\ \A m \in DOMAIN new \ {n} : m \in DOMAIN old /\ new[m] = old[m]
      ]_vars

\* C17 as stated: reading a trigger line makes the text after its first
\* comma, trimmed, the test name, when that text is not empty.
C17_NameAfterFirstComma ==
    [][ (/\ ReadingTestLine
         /\ scan.prepend = None
         /\ HasTrigger(NextTestLine)
         /\ Contains(NextTestLine, <<",">>)
         /\ ClaimedName(AfterFirstComma(NextTestLine)) # <<>>)
        => /\ scan'.testname = ClaimedName(AfterFirstComma(NextTestLine))
           /\ scan'.testname \in DOMAIN test_parser'.test_to_errors
      ]_vars

====
